---- MODULE Spec2Model ----
(***************************************************************************)
(* Model of pybic: a driver for a bidirectional power converter on a CAN   *)
(* bus.  Application threads call property accessors of Bic; read          *)
(* accessors are wrapped by wait_for, which registers a Promise under the  *)
(* accessor's key, enqueues a request frame on the MessageSender queue and *)
(* blocks on the promise.  BicListener receives frames on the notifier     *)
(* thread, submits the command's handler to a 2-worker thread pool, and    *)
(* the handler decodes the payload and fulfils the promises of its key.    *)
(*                                                                         *)
(* Threads interleave at the granularity of one access to shared state     *)
(* (a dict lookup, a deque append, a queue put ...): CPython's GIL makes   *)
(* each of these atomic and allows a switch between any two of them.       *)
(***************************************************************************)
EXTENDS Integers, Sequences, FiniteSets, TLC

-----------------------------------------------------------------------------
(* Bounds of the model *)

NumCallers == 2
MaxCalls == 1
MaxInject == 1
MaxCtorInject == 2
MaxSends == 9

(* Program constants *)

PoolSize == 2
QueueMaxsize == 16
DIR_TO_CONTROLLER == 786944
DIR_FROM_CONTROLLER == 787200
CMD_LENGTH == 2
DefaultArbitrationId == 787200

Callers == 1..NumCallers
Workers == (NumCallers + 1)..(NumCallers + PoolSize)
Threads == Callers \cup Workers

-----------------------------------------------------------------------------
(* Values *)

None == [none |-> TRUE]
Bool(b) == [b |-> b]
Rat(n, d) == [num |-> n, den |-> d]

RECURSIVE Pow10(_)
Pow10(k) == IF k = 0 THEN 1 ELSE 10 * Pow10(k - 1)

\* a conversion that treats the nibble 0 like any other
convert_scaling_factor_any(sf) ==
    IF sf >= 7 THEN Rat(Pow10(sf - 7), 1) ELSE Rat(1, Pow10(7 - sf))

\* listener.convert_scaling_factor: 10 ** (sf - 7), None for 0
convert_scaling_factor(sf) ==
    IF sf = 0 THEN None
    ELSE IF sf >= 7 THEN Rat(Pow10(sf - 7), 1) ELSE Rat(1, Pow10(7 - sf))

LowNibble(b) == b % 16
HighNibble(b) == (b % 256) \div 16

\* the table built by BicListener._handle_cmd_scaling_factor from the
\* payload bytes that follow the command
ScalingTable(data) ==
    [v_out       |-> convert_scaling_factor(LowNibble(data[1])),
     i_out       |-> convert_scaling_factor(HighNibble(data[1])),
     v_in        |-> convert_scaling_factor(LowNibble(data[2])),
     fan_speed   |-> convert_scaling_factor(HighNibble(data[2])),
     temperature |-> convert_scaling_factor(LowNibble(data[3])),
     i_in        |-> convert_scaling_factor(LowNibble(data[4]))]

\* a Python int held by a promise
PyInt(n) == [int |-> n]

\* x & 0x01, x & 0x06, x << 1 and x >> 1
And01(x) == x % 2
And06(x) == (x % 8) - (x % 2)
Shl1(x) == 2 * x
Shr1(x) == x \div 2

\* struct.unpack("<H", b): two bytes, little endian
UnpackU16(b) == b[1] + 256 * b[2]

\* struct.unpack("<h", b): two bytes, little endian, two's complement
UnpackS16(b) == IF b[2] >= 128 THEN UnpackU16(b) - 65536 ELSE UnpackU16(b)

\* raw * factor, as an exact decimal
Scale(raw, f) == Rat(raw * f.num, f.den)

\* (x & mask) > 0 for a mask of one bit
BitSet(x, mask) == (x \div mask) % 2 = 1

\* a Python str, as the sequence of its code points
Str(cs) == [str |-> cs]

\* bytes.decode() of bytes below 0x80 and of 0xFF, which no UTF-8 sequence
\* contains: the str of the same code points, or UnicodeDecodeError
Decodes(b) == \A i \in 1..Len(b) : b[i] < 128
Utf8Decode(b) == Str(b)

\* str + str
Concat(a, b) == Str(a.str \o b.str)

\* the code points str.strip() removes at both ends
Whitespace == {9, 10, 11, 12, 13, 28, 29, 30, 31, 32}

RECURSIVE LStrip(_)
LStrip(cs) ==
    IF cs # <<>> /\ Head(cs) \in Whitespace THEN LStrip(Tail(cs)) ELSE cs

RECURSIVE RStrip(_)
RStrip(cs) ==
    IF cs # <<>> /\ cs[Len(cs)] \in Whitespace
    THEN RStrip(SubSeq(cs, 1, Len(cs) - 1)) ELSE cs

Strip(a) == Str(RStrip(LStrip(a.str)))

\* f"r{rev/10:2.1f}" for a byte: the integer part and the one decimal
Revision(rev) == [r |-> <<rev \div 10, rev % 10>>]

\* _handle_cmd_mfr_revision_b0b5: the revisions of the bytes other than 0xFF
RECURSIVE RevisionTuple(_)
RevisionTuple(b) ==
    IF b = <<>> THEN <<>>
    ELSE IF Head(b) = 255 THEN RevisionTuple(Tail(b))
    ELSE <<Revision(Head(b))>> \o RevisionTuple(Tail(b))

\* _handle_cmd_fault_status and _handle_cmd_system_status
FaultStatus(data) ==
    [fan_fail |-> BitSet(data[1], 1), otp |-> BitSet(data[1], 2),
     ovp |-> BitSet(data[1], 4), olp |-> BitSet(data[1], 8),
     short |-> BitSet(data[1], 16), ac_fail |-> BitSet(data[1], 32),
     op_off |-> BitSet(data[1], 64), hi_temp |-> BitSet(data[1], 128),
     hv_ovp |-> BitSet(data[2], 1)]

SystemStatus(data) ==
    [ms |-> BitSet(data[1], 1), dc_ok |-> BitSet(data[1], 2),
     pfc_ok |-> BitSet(data[1], 4), adl_on |-> BitSet(data[1], 16),
     initial_state |-> BitSet(data[1], 32), eeper |-> BitSet(data[1], 64)]

-----------------------------------------------------------------------------
(* Commands, keys and frames *)

NoPromise == <<0, 0>>

\* the keys of BicListener._command_handlers (the names of pybic.cmd)
CommandHandlers ==
    {"OPERATION", "SCALING_FACTOR", "READ_VIN", "READ_IOUT",
     "REVERSE_VOUT_SET", "READ_VOUT", "REVERSE_IOUT_SET", "SYSTEM_CONFIG",
     "BIDIRECTIONAL_CONFIG", "DIRECTION_CTRL", "READ_TEMPERATURE",
     "FAULT_STATUS", "SYSTEM_STATUS", "MFR_ID_B0B5", "MFR_ID_B6B11",
     "MFR_MODEL_B0B5", "MFR_MODEL_B6B11", "MFR_SERIAL_B0B5",
     "MFR_SERIAL_B6B11", "MFR_DATE_B0B5", "MFR_REVISION_B0B5",
     "MFR_LOCATION_B0B2"}

\* commands Bic sends that have no handler in the dispatch table
UnhandledCommands == {"VOUT_SET", "IOUT_SET"}

\* the wait_for keys of the two accessors that the callers of most
\* specifications read
GetKeys == {"operation", "v_out"}
\* the settable parameters whose handlers decode what the setters encode
ConfigKeys == {"direction_ctrl", "bidirectional_config", "system_config"}
ParamKeys == {"operation"} \cup ConfigKeys

\* the wait_for keys of the read accessors that multiply by a scaling factor
ScaledKeys ==
    {"v_in", "v_out", "i_out", "reverse_v_out", "reverse_i_out",
     "temperature"}

\* the wait_for keys of the read accessors wrapped in functools.lru_cache
\* (mfr_date, mfr_revision and mfr_location wait under the longer names)
MfrStrKeys ==
    {"mfr_id_b0b5", "mfr_id_b6b11", "mfr_model_b0b5", "mfr_model_b6b11",
     "mfr_serial_b0b5", "mfr_serial_b6b11", "mfr_date_b0b5",
     "mfr_location_b0b2"}
MfrKeys == MfrStrKeys \cup {"mfr_revision_b0b5"}

\* the wait_for keys of the read accessors that are not cached
PlainKeys == {"operation", "fault_status"} \cup ScaledKeys \cup ConfigKeys

\* the keys the handlers fulfil; system_status has a handler and no accessor
Keys == PlainKeys \cup MfrKeys \cup {"scaling_factor", "system_status"}

\* the command a read accessor puts in its request frame
GetCmd(key) ==
    CASE key = "operation" -> "OPERATION"
      [] key = "scaling_factor" -> "SCALING_FACTOR"
      [] key = "v_out" -> "READ_VOUT"
      [] key = "v_in" -> "READ_VIN"
      [] key = "i_out" -> "READ_IOUT"
      [] key = "reverse_v_out" -> "REVERSE_VOUT_SET"
      [] key = "reverse_i_out" -> "REVERSE_IOUT_SET"
      [] key = "temperature" -> "READ_TEMPERATURE"
      [] key = "fault_status" -> "FAULT_STATUS"
      [] key = "system_config" -> "SYSTEM_CONFIG"
      [] key = "bidirectional_config" -> "BIDIRECTIONAL_CONFIG"
      [] key = "direction_ctrl" -> "DIRECTION_CTRL"
      [] key = "mfr_id_b0b5" -> "MFR_ID_B0B5"
      [] key = "mfr_id_b6b11" -> "MFR_ID_B6B11"
      [] key = "mfr_model_b0b5" -> "MFR_MODEL_B0B5"
      [] key = "mfr_model_b6b11" -> "MFR_MODEL_B6B11"
      [] key = "mfr_serial_b0b5" -> "MFR_SERIAL_B0B5"
      [] key = "mfr_serial_b6b11" -> "MFR_SERIAL_B6B11"
      [] key = "mfr_date_b0b5" -> "MFR_DATE_B0B5"
      [] key = "mfr_revision_b0b5" -> "MFR_REVISION_B0B5"
      [] key = "mfr_location_b0b2" -> "MFR_LOCATION_B0B2"

\* the key whose promises the handler of a command fulfils
HandlerKey(cmd) ==
    CASE cmd = "OPERATION" -> "operation"
      [] cmd = "SCALING_FACTOR" -> "scaling_factor"
      [] cmd = "READ_VOUT" -> "v_out"
      [] cmd = "DIRECTION_CTRL" -> "direction_ctrl"
      [] cmd = "BIDIRECTIONAL_CONFIG" -> "bidirectional_config"
      [] cmd = "SYSTEM_CONFIG" -> "system_config"
      [] cmd = "READ_VIN" -> "v_in"
      [] cmd = "READ_IOUT" -> "i_out"
      [] cmd = "REVERSE_VOUT_SET" -> "reverse_v_out"
      [] cmd = "REVERSE_IOUT_SET" -> "reverse_i_out"
      [] cmd = "READ_TEMPERATURE" -> "temperature"
      [] cmd = "FAULT_STATUS" -> "fault_status"
      [] cmd = "SYSTEM_STATUS" -> "system_status"
      [] cmd = "MFR_ID_B0B5" -> "mfr_id_b0b5"
      [] cmd = "MFR_ID_B6B11" -> "mfr_id_b6b11"
      [] cmd = "MFR_MODEL_B0B5" -> "mfr_model_b0b5"
      [] cmd = "MFR_MODEL_B6B11" -> "mfr_model_b6b11"
      [] cmd = "MFR_SERIAL_B0B5" -> "mfr_serial_b0b5"
      [] cmd = "MFR_SERIAL_B6B11" -> "mfr_serial_b6b11"
      [] cmd = "MFR_DATE_B0B5" -> "mfr_date_b0b5"
      [] cmd = "MFR_REVISION_B0B5" -> "mfr_revision_b0b5"
      [] cmd = "MFR_LOCATION_B0B2" -> "mfr_location_b0b2"

\* the commands of the scaled reads, the factor each handler multiplies by
\* and whether it unpacks "<h" (signed) or "<H"
ScaledCmds == {GetCmd(k) : k \in ScaledKeys}
HandlerFactor(cmd) ==
    CASE cmd \in {"READ_VOUT", "REVERSE_VOUT_SET"} -> "v_out"
      [] cmd \in {"READ_IOUT", "REVERSE_IOUT_SET"} -> "i_out"
      [] cmd = "READ_VIN" -> "v_in"
      [] cmd = "READ_TEMPERATURE" -> "temperature"
UnpacksSigned(cmd) == cmd \in {"READ_IOUT", "READ_TEMPERATURE"}

\* the commands whose handlers decode the payload as text
MfrStrCmds == {GetCmd(k) : k \in MfrStrKeys}

ModelledCmds == {"OPERATION", "SCALING_FACTOR", "READ_VOUT"}

\* the commands of all the read accessors
ReadCmds == {GetCmd(k) : k \in PlainKeys \cup MfrKeys \cup {"scaling_factor"}}

\* Bic._msg_factory: the frame carries the driver's arbitration id, the
\* command and the optional payload.  `by` names the promise that the read
\* accessor building the frame waits on (NoPromise for a setter's frame) and
\* `ser` is the frame's rank among the completed enqueues (0: not yet
\* enqueued); both are bookkeeping, not bytes of the frame.
_msg_factory(command, data, by) ==
    [arb |-> DefaultArbitrationId, cmd |-> command, data |-> data,
     by |-> by, ser |-> 0]

\* a frame received from the bus; cmd = "SHORT" stands for a payload of
\* fewer than CMD_LENGTH bytes
InFrame(arb, cmd, data) == [arb |-> arb, cmd |-> cmd, data |-> data]

\* arbitration_id & 0xFFF00 and arbitration_id & 0x000FF
DirBits(id) == (id % 1048576) - (id % 256)
NodeBits(id) == id % 256

SfPayloadA == <<85, 118, 6, 0>>
SfPayloadB == <<84, 118, 6, 0>>

\* what the device answers to a read request of a command
ResponseData(cmd) ==
    CASE cmd = "OPERATION" -> {<<0>>, <<1>>}
      [] cmd = "READ_VOUT" -> {<<136, 19>>}
      [] cmd = "SCALING_FACTOR" -> {SfPayloadA}
      [] cmd \in {"READ_VIN", "REVERSE_VOUT_SET"} -> {<<16, 39>>}
      [] cmd = "REVERSE_IOUT_SET" -> {<<232, 3>>}
      [] cmd \in {"READ_IOUT", "READ_TEMPERATURE"} -> {<<250, 0>>, <<56, 255>>}
      [] cmd = "FAULT_STATUS" -> {<<0, 0>>, <<130, 1>>}
      [] cmd = "SYSTEM_CONFIG" -> {<<5, 0>>}
      [] cmd = "BIDIRECTIONAL_CONFIG" -> {<<1, 0>>}
      [] cmd = "DIRECTION_CTRL" -> {<<1>>}
      [] cmd = "MFR_REVISION_B0B5" -> {<<15, 255, 102>>}
      [] cmd \in {"MFR_ID_B0B5", "MFR_MODEL_B0B5", "MFR_SERIAL_B0B5"} ->
             {<<32, 77>>}
      [] cmd \in {"MFR_ID_B6B11", "MFR_MODEL_B6B11", "MFR_SERIAL_B6B11"} ->
             {<<87, 32>>}
      [] cmd \in {"MFR_DATE_B0B5", "MFR_LOCATION_B0B2"} ->
             {<<50, 52>>, <<255, 52>>}

DeviceResponses(cmd) ==
    {InFrame(DIR_TO_CONTROLLER + NodeBits(DefaultArbitrationId), cmd, d) :
        d \in ResponseData(cmd)}

\* frames that arrive without a request of this driver
UnsolicitedFrames ==
    {InFrame(DIR_TO_CONTROLLER, "VOUT_SET", <<>>),
     InFrame(DIR_TO_CONTROLLER, "OPERATION", <<1>>),
     InFrame(DIR_TO_CONTROLLER, "OPERATION", <<>>),
     InFrame(DIR_TO_CONTROLLER + 1, "OPERATION", <<1>>),
     InFrame(DIR_FROM_CONTROLLER, "OPERATION", <<1>>)}

-----------------------------------------------------------------------------
(* State *)

PromiseIds == Threads \X (0..(2 * MaxCalls))
NoDeque == <<0, 0>>
NoFrame == [cmd |-> "none"]
NoCache == [nocache |-> TRUE]
Unset == [unset |-> TRUE]
NoOp == [kind |-> "none"]

VARIABLES
    pc,           \* per thread: where it is in its code
    op,           \* per caller: the accessor call in progress
    ncalls,       \* per caller: accessor calls started
    result,       \* per caller: outcome of the last completed call
    promisesAttr, \* Bic._promises has been assigned
    promises,     \* Bic._promises: key -> deque (NoDeque: key absent)
    deq,          \* the deques: id -> sequence of promises
    pval,         \* Promise._result (Unset: as the constructor left it)
    pev,          \* Promise._ev is set
    pcnt,         \* number of times set_result stored a result in the promise
    cache,        \* the lru_cache entry of Bic.scaling_factor
    wfkey,        \* per thread: key of the wait_for in progress
    wfprom,       \* per thread: promise of the wait_for in progress
    tmp,          \* per thread: value returned by the innermost call
    queue,        \* MessageSender._queue
    nput,         \* number of completed enqueues
    spc,          \* the sender worker's position
    smsg,         \* the frame the sender worker holds
    stopFlag,     \* MessageSender._stop
    tpc,          \* the thread that calls MessageSender.stop: its position
    doneAtStop,   \* frames transmitted or in transmission when _stop was set
    loopAtStop,   \* the same, with the frame of a loop turn already begun
    lstop,        \* how the call of BicListener.stop ended
    sent,         \* serials of the frames handed to the transport
    wire,         \* read requests transmitted and not yet answered
    echo,         \* parameter frames transmitted and not yet reported back
    jobs,         \* handlers submitted to the pool and not yet started
    wframe,       \* per worker: the frame of its handler
    wval,         \* per worker: the decoded value
    wdeq,         \* per worker: the deque its iterator runs over
    witer,        \* per worker: the promises its iterator has yet to yield
    wsnap,        \* per worker: the deque's contents when the loop began
    wstale,       \* per worker: the deque changed since the iterator began
    wout,         \* per worker: how its handler ended
    injected,     \* unsolicited frames received so far
    attached,     \* the listener has been attached to the bus
    warned,       \* "handler not implemented" warnings logged so far
    fromSeen,     \* "received message from controller" lines logged so far
    sfReturned,   \* the tables that reads of scaling_factor have returned
    sfRequests,   \* scaling-factor request frames enqueued so far
    mfrCache      \* the lru_cache entries of the mfr_* accessors

callerVars == <<op, ncalls, result>>
tableVars == <<promisesAttr, promises, deq, pval, pev, pcnt>>
waitVars == <<wfkey, wfprom, tmp>>
stopVars == <<stopFlag, tpc, doneAtStop, loopAtStop, lstop>>
senderVars == <<queue, nput, spc, smsg, stopVars, sent>>
busVars == <<wire, echo, jobs, injected, attached, warned, fromSeen>>
workerVars == <<wframe, wval, wdeq, witer, wsnap, wstale, wout>>
cacheVars == <<cache, sfReturned, sfRequests, mfrCache>>
vars == <<pc, callerVars, tableVars, cacheVars, waitVars, senderVars, busVars,
          workerVars>>

InitCommon ==
    /\ ncalls = [t \in Callers |-> 0]
    /\ result = [t \in Callers |-> NoOp]
    /\ pval = [p \in PromiseIds |-> Unset]
    /\ pev = [p \in PromiseIds |-> FALSE]
    /\ pcnt = [p \in PromiseIds |-> 0]
    /\ wfkey = [t \in Threads |-> "none"]
    /\ wfprom = [t \in Threads |-> NoPromise]
    /\ tmp = [t \in Threads |-> None]
    /\ queue = <<>>
    /\ nput = 0
    /\ spc = "loop"
    /\ smsg = NoFrame
    /\ stopFlag = FALSE
    /\ tpc = "run"
    /\ doneAtStop = 0
    /\ loopAtStop = 0
    /\ lstop = "none"
    /\ sent = <<>>
    /\ wire = [c \in ReadCmds |-> 0]
    /\ echo = {}
    /\ jobs = <<>>
    /\ injected = 0
    /\ warned = 0
    /\ fromSeen = 0
    /\ sfRequests = 0
    /\ mfrCache = [k \in MfrKeys |-> NoCache]
    /\ wframe = [w \in Workers |-> NoFrame]
    /\ wval = [w \in Workers |-> None]
    /\ wdeq = [w \in Workers |-> NoDeque]
    /\ witer = [w \in Workers |-> <<>>]
    /\ wsnap = [w \in Workers |-> <<>>]
    /\ wstale = [w \in Workers |-> FALSE]
    /\ wout = [w \in Workers |-> "none"]

\* The driver once Bic.__init__ has returned: the prefetch of the scaling
\* table registered a promise under "scaling_factor", was answered, and left
\* the table in the cache and an empty deque under the key.
Init ==
    /\ InitCommon
    /\ op = [t \in Callers |-> NoOp]
    /\ pc = [t \in Threads |-> "idle"]
    /\ promisesAttr = TRUE
    /\ promises = [k \in Keys |-> IF k = "scaling_factor" THEN <<1, 0>>
                                  ELSE NoDeque]
    /\ deq = [d \in PromiseIds |-> <<>>]
    /\ cache = ScalingTable(SfPayloadA)
    /\ sfReturned = {ScalingTable(SfPayloadA)}
    /\ attached = TRUE

-----------------------------------------------------------------------------
(* wait_for: the wrapper of every read accessor (bic.py, wait_for._impl) *)

\* the accessor call a thread is in: a caller's n-th call (the read of the
\* second half of mfr_id, mfr_model or mfr_serial being a call of its own),
\* or the one read of scaling_factor a pool worker or the constructor can
\* miss the cache on
CallId(t) ==
    IF t \in Workers THEN <<t, 0>>
    ELSE IF op[t].kind = "pair" /\ op[t].val # None
    THEN <<t, MaxCalls + ncalls[t]>>
    ELSE <<t, ncalls[t]>>

\* deque.append and deque.clear change the deque's state counter, which makes
\* the next step of every iterator over that deque raise RuntimeError
Staled(d) ==
    [w \in Workers |->
        wstale[w] \/ (pc[w] \in {"f_step", "f_set", "f_event"} /\ wdeq[w] = d)]

\* how a handler ends: the exception it raised, or "ok"
HandlerEnds(w, how) ==
    /\ pc' = [pc EXCEPT ![w] = "h_end"]
    /\ wout' = [wout EXCEPT ![w] = how]

\* a caller's accessor call returns or raises
Finish(t, how, v, n) ==
    /\ result' = [result EXCEPT ![t] =
                     [kind |-> op[t].kind, key |-> op[t].key,
                      val |-> op[t].val, out |-> how, ret |-> v, nenq |-> n]]
    /\ op' = [op EXCEPT ![t] = NoOp]
    /\ pc' = [pc EXCEPT ![t] = "idle"]

\* queue.Queue.put: appends at the tail
Put(msg) ==
    /\ queue' = Append(queue, [msg EXCEPT !.ser = nput + 1])
    /\ nput' = nput + 1

\* a send that enqueues whatever the queue holds
send_unbounded(msg) == Put(msg)

\* MessageSender.send: queue.put(msg) blocks while the queue is full
send(msg) ==
    /\ Len(queue) < QueueMaxsize
    /\ Put(msg)

\* a wrapper that sends the request before it registers the waiter
WfCheckEager(t) ==
    /\ pc[t] = "wf_check"
    /\ IF ~promisesAttr
       THEN /\ t \in Workers
            /\ HandlerEnds(t, "AttributeError")
            /\ UNCHANGED <<wframe, wval, wdeq, witer, wsnap, wstale, queue,
                           nput>>
       ELSE /\ pc' = [pc EXCEPT ![t] = IF promises[wfkey[t]] = NoDeque
                                       THEN "wf_create" ELSE "wf_append"]
            /\ send(_msg_factory(GetCmd(wfkey[t]), <<>>, CallId(t)))
            /\ UNCHANGED workerVars
    /\ UNCHANGED <<callerVars, tableVars, cacheVars, waitVars, spc, smsg,
                   stopVars, sent, busVars>>

\* `if cmd not in self._promises`
WfCheck(t) ==
    /\ pc[t] = "wf_check"
    /\ IF ~promisesAttr
       THEN /\ t \in Workers
            /\ HandlerEnds(t, "AttributeError")
            /\ UNCHANGED <<wframe, wval, wdeq, witer, wsnap, wstale>>
       ELSE /\ pc' = [pc EXCEPT ![t] = IF promises[wfkey[t]] = NoDeque
                                       THEN "wf_create" ELSE "wf_append"]
            /\ UNCHANGED workerVars
    /\ UNCHANGED <<callerVars, tableVars, cacheVars, waitVars, senderVars,
                   busVars>>

\* `self._promises[cmd] = collections.deque()`
WfCreate(t) ==
    /\ pc[t] = "wf_create"
    /\ promises' = [promises EXCEPT ![wfkey[t]] = CallId(t)]
    /\ deq' = [deq EXCEPT ![CallId(t)] = <<>>]
    /\ pc' = [pc EXCEPT ![t] = "wf_append"]
    /\ UNCHANGED <<callerVars, promisesAttr, pval, pev, pcnt,
                   cacheVars, waitVars,
                   senderVars, busVars, workerVars>>

\* `promise = Promise(); self._promises[cmd].append(promise)`
WfAppend(t) ==
    /\ pc[t] = "wf_append"
    /\ deq' = [deq EXCEPT ![promises[wfkey[t]]] = Append(@, CallId(t))]
    /\ wstale' = Staled(promises[wfkey[t]])
    /\ wfprom' = [wfprom EXCEPT ![t] = CallId(t)]
    /\ pc' = [pc EXCEPT ![t] = "wf_send"]
    /\ UNCHANGED <<callerVars, promisesAttr, promises, pval, pev, pcnt,
                   cacheVars,
                   wfkey, tmp, senderVars, busVars, wframe, wval, wdeq, witer,
                   wsnap, wout>>

\* `method(self)`: the accessor body builds the request frame and sends it
WfSend(t) ==
    /\ pc[t] = "wf_send"
    /\ send(_msg_factory(GetCmd(wfkey[t]), <<>>, CallId(t)))
    /\ pc' = [pc EXCEPT ![t] = "wf_wait"]
    /\ op' = [c \in Callers |->
                IF c = t THEN [op[c] EXCEPT !.nenq = @ + 1] ELSE op[c]]
    /\ sfRequests' = IF wfkey[t] = "scaling_factor" THEN sfRequests + 1
                    ELSE sfRequests
    /\ UNCHANGED <<ncalls, result, tableVars, cache, sfReturned, mfrCache,
                   waitVars, spc,
                   smsg, stopVars, sent, busVars, workerVars>>

\* `return promise.result`: Promise.result waits for the event, then returns
\* the value stored at that moment.  The event is never cleared, so the wait
\* that has returned and the read that follows are one step taken at the read.
WfResult(t) ==
    /\ pc[t] = "wf_wait"
    /\ pev[wfprom[t]]
    /\ IF wfkey[t] = "scaling_factor"
       THEN /\ tmp' = [tmp EXCEPT ![t] = pval[wfprom[t]]]
            /\ pc' = [pc EXCEPT ![t] = "lru_store"]
            /\ UNCHANGED callerVars
       ELSE IF wfkey[t] \in MfrKeys
       THEN /\ tmp' = [tmp EXCEPT ![t] = pval[wfprom[t]]]
            /\ pc' = [pc EXCEPT ![t] = "mlru_store"]
            /\ UNCHANGED callerVars
       ELSE /\ Finish(t, "ok", pval[wfprom[t]], op[t].nenq)
            /\ UNCHANGED <<ncalls, tmp>>
    /\ UNCHANGED <<tableVars, cacheVars, wfkey, wfprom, senderVars, busVars,
                   workerVars>>

-----------------------------------------------------------------------------
(* Bic.scaling_factor: functools.lru_cache around wait_for("scaling_factor") *)

\* the read of scaling_factor returns v to the code that made it: a numeric
\* handler, a setter, Bic.__init__ or the caller of the accessor
ReturnScaling(t, v) ==
    /\ sfReturned' = sfReturned \cup {v}
    /\ IF t \in Workers
       THEN /\ tmp' = [tmp EXCEPT ![t] = v]
            /\ pc' = [pc EXCEPT ![t] = "h_val"]
            /\ UNCHANGED callerVars
       ELSE IF op[t].kind = "set"
       THEN /\ tmp' = [tmp EXCEPT ![t] = v]
            /\ pc' = [pc EXCEPT ![t] = "set_pack"]
            /\ UNCHANGED callerVars
       ELSE IF op[t].kind = "ctor"
       THEN /\ pc' = [pc EXCEPT ![t] = "idle"]
            /\ op' = [op EXCEPT ![t] = NoOp]
            /\ UNCHANGED <<ncalls, result, tmp>>
       ELSE /\ Finish(t, "ok", v, op[t].nenq)
            /\ UNCHANGED <<ncalls, tmp>>

\* the cache lookup: a hit returns the cached table, a miss calls the
\* wrapped accessor
LruLookup(t) ==
    /\ pc[t] = "lru"
    /\ IF cache # NoCache
       THEN /\ ReturnScaling(t, cache)
            /\ UNCHANGED wfkey
       ELSE /\ wfkey' = [wfkey EXCEPT ![t] = "scaling_factor"]
            /\ pc' = [pc EXCEPT ![t] = "wf_check"]
            /\ UNCHANGED <<callerVars, tmp, sfReturned>>
    /\ UNCHANGED <<tableVars, cache, sfRequests, mfrCache, wfprom, senderVars,
                   busVars,
                   workerVars>>

\* after the wrapped accessor returned: the result is stored unless the key
\* was added to the cache meanwhile, and returned either way
LruStore(t) ==
    /\ pc[t] = "lru_store"
    /\ cache' = IF cache = NoCache THEN tmp[t] ELSE cache
    /\ ReturnScaling(t, tmp[t])
    /\ UNCHANGED <<tableVars, sfRequests, mfrCache, wfkey, wfprom, senderVars,
                   busVars,
                   workerVars>>

-----------------------------------------------------------------------------
(* The read accessors *)

NewOp(kind, key, val) == [kind |-> kind, key |-> key, val |-> val, nenq |-> 0]

\* Bic.__init__ has returned, so the application holds the driver
Constructed == \A t \in Callers : op[t].kind # "ctor"

\* a caller reads a property wrapped by wait_for
CallGet(t, k) ==
    /\ pc[t] = "idle"
    /\ Constructed
    /\ ncalls[t] < MaxCalls
    /\ ncalls' = [ncalls EXCEPT ![t] = @ + 1]
    /\ op' = [op EXCEPT ![t] = NewOp("get", k, None)]
    /\ wfkey' = [wfkey EXCEPT ![t] = k]
    /\ pc' = [pc EXCEPT ![t] = "wf_check"]
    /\ UNCHANGED <<result, tableVars, cacheVars, wfprom, tmp, senderVars,
                   busVars, workerVars>>

\* a caller reads Bic.scaling_factor; the call remembers the tables that
\* reads had returned before it began
CallScaling(t) ==
    /\ pc[t] = "idle"
    /\ Constructed
    /\ ncalls[t] < MaxCalls
    /\ ncalls' = [ncalls EXCEPT ![t] = @ + 1]
    /\ op' = [op EXCEPT ![t] = NewOp("get", "scaling_factor", sfReturned)]
    /\ pc' = [pc EXCEPT ![t] = "lru"]
    /\ UNCHANGED <<result, tableVars, cacheVars, waitVars, senderVars,
                   busVars, workerVars>>

-----------------------------------------------------------------------------
(* The mfr_* accessors: functools.lru_cache around wait_for, one cache each;
   mfr_id, mfr_model and mfr_serial read two of them and join the halves *)

PairKeys == {"mfr_id", "mfr_model", "mfr_serial"}
FirstHalf(k) ==
    CASE k = "mfr_id" -> "mfr_id_b0b5"
      [] k = "mfr_model" -> "mfr_model_b0b5"
      [] k = "mfr_serial" -> "mfr_serial_b0b5"
SecondHalf(k) ==
    CASE k = "mfr_id" -> "mfr_id_b6b11"
      [] k = "mfr_model" -> "mfr_model_b6b11"
      [] k = "mfr_serial" -> "mfr_serial_b6b11"

\* `self.mfr_id_b0b5 + self.mfr_id_b6b11`; mfr_model strips the sum
Joined(k, a, b) == IF k = "mfr_model" THEN Strip(Concat(a, b)) ELSE Concat(a, b)

\* the cached accessor a caller is reading: the one it called, or the half
\* of the pair it has come to (op.val holds the first half once read)
MfrKeyOf(t) ==
    IF op[t].kind = "pair"
    THEN IF op[t].val = None THEN FirstHalf(op[t].key)
         ELSE SecondHalf(op[t].key)
    ELSE op[t].key

\* a caller reads one of the cached accessors
CallMfr(t, k) ==
    /\ pc[t] = "idle"
    /\ Constructed
    /\ ncalls[t] < MaxCalls
    /\ ncalls' = [ncalls EXCEPT ![t] = @ + 1]
    /\ op' = [op EXCEPT ![t] = NewOp("mfr", k, None)]
    /\ pc' = [pc EXCEPT ![t] = "mlru"]
    /\ UNCHANGED <<result, tableVars, cacheVars, waitVars, senderVars,
                   busVars, workerVars>>

\* a caller reads mfr_id, mfr_model or mfr_serial
CallMfrPair(t, k) ==
    /\ pc[t] = "idle"
    /\ Constructed
    /\ ncalls[t] < MaxCalls
    /\ ncalls' = [ncalls EXCEPT ![t] = @ + 1]
    /\ op' = [op EXCEPT ![t] = NewOp("pair", k, None)]
    /\ pc' = [pc EXCEPT ![t] = "mlru"]
    /\ UNCHANGED <<result, tableVars, cacheVars, waitVars, senderVars,
                   busVars, workerVars>>

\* the cached accessor returns v: to the caller, or to the sum, which reads
\* its second half next
ReturnMfr(t, v) ==
    IF op[t].kind = "pair" /\ op[t].val = None
    THEN /\ op' = [op EXCEPT ![t].val = v]
         /\ pc' = [pc EXCEPT ![t] = "mlru"]
         /\ UNCHANGED result
    ELSE IF op[t].kind = "pair"
    THEN Finish(t, "ok", Joined(op[t].key, op[t].val, v), op[t].nenq)
    ELSE Finish(t, "ok", v, op[t].nenq)

\* the cache lookup: a hit returns the cached value, a miss calls the
\* wrapped accessor
MfrLookup(t) ==
    /\ pc[t] = "mlru"
    /\ IF mfrCache[MfrKeyOf(t)] # NoCache
       THEN /\ ReturnMfr(t, mfrCache[MfrKeyOf(t)])
            /\ UNCHANGED wfkey
       ELSE /\ wfkey' = [wfkey EXCEPT ![t] = MfrKeyOf(t)]
            /\ pc' = [pc EXCEPT ![t] = "wf_check"]
            /\ UNCHANGED <<op, result>>
    /\ UNCHANGED <<ncalls, tableVars, cacheVars, wfprom, tmp, senderVars,
                   busVars, workerVars>>

\* after the wrapped accessor returned: the result is stored unless the key
\* was added to the cache meanwhile, and returned either way
MfrStore(t) ==
    /\ pc[t] = "mlru_store"
    /\ mfrCache' = [mfrCache EXCEPT ![wfkey[t]] =
                       IF @ = NoCache THEN tmp[t] ELSE @]
    /\ ReturnMfr(t, tmp[t])
    /\ UNCHANGED <<ncalls, tableVars, cache, sfReturned, sfRequests, waitVars,
                   senderVars, busVars, workerVars>>

-----------------------------------------------------------------------------
(* The setters *)

\* physical values are counted in thousandths of a volt or an ampere
SetKeys == {"v_out", "reverse_v_out", "i_out", "reverse_i_out"}

\* the bounds each setter compares its value with
RangeLo(k) == IF k \in {"v_out", "reverse_v_out"} THEN 38000 ELSE 450
RangeHi(k) ==
    CASE k \in {"v_out", "reverse_v_out"} -> 65000
      [] k = "i_out" -> 49500
      [] k = "reverse_i_out" -> 38300

\* `if value < lo or value > hi: raise ValueError`
OutOfRange(k, v) == v < RangeLo(k) \/ v > RangeHi(k)

\* the values the callers try: each bound, and one step outside it
SetValues(k) ==
    {RangeLo(k) - 100, RangeLo(k), RangeHi(k), RangeHi(k) + 100}

\* the entry of the scaling table a setter divides by
FactorKey(k) == IF k \in {"v_out", "reverse_v_out"} THEN "v_out" ELSE "i_out"

\* the command of the frame a setter sends
SetCmd(k) ==
    CASE k = "v_out" -> "VOUT_SET"
      [] k = "i_out" -> "IOUT_SET"
      [] k = "reverse_v_out" -> "REVERSE_VOUT_SET"
      [] k = "reverse_i_out" -> "REVERSE_IOUT_SET"
      [] k = "operation" -> "OPERATION"
      [] k = "direction_ctrl" -> "DIRECTION_CTRL"
      [] k = "bidirectional_config" -> "BIDIRECTIONAL_CONFIG"
      [] k = "system_config" -> "SYSTEM_CONFIG"

\* value / factor is a division of doubles: for these values and factors the
\* quotient is rounded to just below the integer the exact division gives
FloatDeficit(v, f) ==
    IF \/ v = 38300 /\ f.num = 1 /\ f.den \in {10, 100, 1000, 10000, 100000}
       \/ v \in {38000, 65000} /\ f.num = 1 /\ f.den = 100000
    THEN 1 ELSE 0

\* math.floor(value / factor)
FloorDiv(v, f) == ((v * f.den) \div (1000 * f.num)) - FloatDeficit(v, f)

\* struct.pack("<H", n)
PackU16(n) == <<n % 256, n \div 256>>

\* a caller assigns v to one of the range-checked properties: the setter
\* raises ValueError at once, or goes on to read the scaling table
CallSet(t, k, v) ==
    /\ pc[t] = "idle"
    /\ Constructed
    /\ ncalls[t] < MaxCalls
    /\ ncalls' = [ncalls EXCEPT ![t] = @ + 1]
    /\ IF OutOfRange(k, v)
       THEN /\ result' = [result EXCEPT ![t] =
                            [kind |-> "set", key |-> k, val |-> v,
                             out |-> "ValueError", ret |-> None, nenq |-> 0]]
            /\ UNCHANGED <<pc, op>>
       ELSE /\ op' = [op EXCEPT ![t] = NewOp("set", k, v)]
            /\ pc' = [pc EXCEPT ![t] = "lru"]
            /\ UNCHANGED result
    /\ UNCHANGED <<tableVars, cacheVars, waitVars, senderVars, busVars,
                   workerVars>>

\* the rest of a range-checked setter: the value is divided by its factor
\* (TypeError when the factor is None), packed as an unsigned short
\* (struct.error when it does not fit) and the frame is sent
SetSend(t) ==
    /\ pc[t] = "set_pack"
    /\ LET f == tmp[t][FactorKey(op[t].key)] IN
       IF f = None
       THEN Finish(t, "TypeError", None, op[t].nenq) /\ UNCHANGED senderVars
       ELSE IF FloorDiv(op[t].val, f) > 65535
       THEN Finish(t, "struct.error", None, op[t].nenq)
            /\ UNCHANGED senderVars
       ELSE /\ send(_msg_factory(SetCmd(op[t].key),
                                 PackU16(FloorDiv(op[t].val, f)), NoPromise))
            /\ Finish(t, "ok", None, op[t].nenq + 1)
            /\ UNCHANGED <<spc, smsg, stopVars, sent>>
    /\ UNCHANGED <<ncalls, tableVars, cacheVars, waitVars, busVars,
                   workerVars>>

\* a caller assigns to Bic.operation: the setter builds the frame ...
CallSetOperation(t, v, limit) ==
    /\ pc[t] = "idle"
    /\ Constructed
    /\ ncalls[t] < limit
    /\ ncalls' = [ncalls EXCEPT ![t] = @ + 1]
    /\ op' = [op EXCEPT ![t] = NewOp("set", "operation", v)]
    /\ pc' = [pc EXCEPT ![t] = "op_send"]
    /\ UNCHANGED <<result, tableVars, cacheVars, waitVars, senderVars,
                   busVars, workerVars>>

\* ... and sends it
OperationSend(t) ==
    /\ pc[t] = "op_send"
    /\ send(_msg_factory("OPERATION", IF op[t].val THEN <<1>> ELSE <<0>>,
                         NoPromise))
    /\ Finish(t, "ok", None, op[t].nenq + 1)
    /\ UNCHANGED <<ncalls, tableVars, cacheVars, waitVars, spc, smsg,
                   stopVars, sent, busVars, workerVars>>

\* the values a caller assigns to a parameter
ParamValues(k) ==
    CASE k = "operation" -> BOOLEAN
      [] k = "direction_ctrl" -> {0, 1}
      [] k = "bidirectional_config" -> {[mode |-> m] : m \in {0, 1}}
      [] k = "system_config" ->
           {[can_ctrl |-> c, operation_init |-> o] : c \in {0, 1},
                                                     o \in 0..3}

\* the payload the setter of a parameter builds for a value
EncodeParam(k, v) ==
    CASE k = "operation" -> IF v THEN <<1>> ELSE <<0>>
      [] k = "direction_ctrl" -> <<v>>
      [] k = "bidirectional_config" -> <<v.mode, 0>>
      [] k = "system_config" ->
           <<And01(v.can_ctrl) + Shl1(And06(v.operation_init)), 0>>

\* the frames that report a parameter back to the driver
ParamFrames ==
    UNION {{InFrame(DIR_TO_CONTROLLER + NodeBits(DefaultArbitrationId),
                    SetCmd(k), EncodeParam(k, v)) : v \in ParamValues(k)} :
           k \in ParamKeys}

\* a caller assigns to Bic.direction_ctrl, Bic.bidirectional_config or
\* Bic.system_config: the setter builds the frame ...
CallSetParam(t, k, v) ==
    /\ pc[t] = "idle"
    /\ Constructed
    /\ ncalls[t] < MaxCalls
    /\ ncalls' = [ncalls EXCEPT ![t] = @ + 1]
    /\ op' = [op EXCEPT ![t] = NewOp("set", k, v)]
    /\ pc' = [pc EXCEPT ![t] = "param_send"]
    /\ UNCHANGED <<result, tableVars, cacheVars, waitVars, senderVars,
                   busVars, workerVars>>

\* ... and sends it
ParamSend(t) ==
    /\ pc[t] = "param_send"
    /\ send(_msg_factory(SetCmd(op[t].key), EncodeParam(op[t].key, op[t].val),
                         NoPromise))
    /\ Finish(t, "ok", None, op[t].nenq + 1)
    /\ UNCHANGED <<ncalls, tableVars, cacheVars, waitVars, spc, smsg,
                   stopVars, sent, busVars, workerVars>>

-----------------------------------------------------------------------------
(* Bic.__init__, from the point where the sender and the listener exist *)

\* `can.Notifier(bus, [self._listener])`
CtorAttach ==
    /\ pc[1] = "ctor_attach"
    /\ attached' = TRUE
    /\ pc' = [pc EXCEPT ![1] = "ctor_promises"]
    /\ UNCHANGED <<callerVars, tableVars, cacheVars, waitVars, senderVars,
                   wire, echo, jobs, injected, warned, fromSeen, workerVars>>

\* `self._promises = {}`, then the prefetch `self.scaling_factor`
CtorPromises ==
    /\ pc[1] = "ctor_promises"
    /\ promisesAttr' = TRUE
    /\ pc' = [pc EXCEPT ![1] = "lru"]
    /\ UNCHANGED <<callerVars, promises, deq, pval, pev, pcnt,
                   cacheVars, waitVars,
                   senderVars, busVars, workerVars>>

-----------------------------------------------------------------------------
(* MessageSender._worker *)

\* a worker whose loop does not look at the stop flag
SenderLoopDeaf ==
    /\ spc = "loop"
    /\ spc' = "get"
    /\ UNCHANGED <<pc, callerVars, tableVars, cacheVars, waitVars, queue,
                   nput, smsg, stopVars, sent, busVars, workerVars>>

\* `while not self._stop.is_set()`
SenderLoop ==
    /\ spc = "loop"
    /\ spc' = IF stopFlag THEN "stopped" ELSE "get"
    /\ UNCHANGED <<pc, callerVars, tableVars, cacheVars, waitVars, queue,
                   nput, smsg, stopVars, sent, busVars, workerVars>>

\* a worker that takes the newest frame of the queue
SenderGetLast ==
    /\ spc = "get"
    /\ IF queue = <<>>
       THEN /\ spc' = "loop"
            /\ UNCHANGED <<queue, smsg>>
       ELSE /\ smsg' = queue[Len(queue)]
            /\ queue' = SubSeq(queue, 1, Len(queue) - 1)
            /\ spc' = "send"
    /\ UNCHANGED <<pc, callerVars, tableVars, cacheVars, waitVars, nput,
                   stopVars, sent, busVars, workerVars>>

\* `msg = self._queue.get_nowait()`; queue.Empty: sleep and continue
SenderGet ==
    /\ spc = "get"
    /\ IF queue = <<>>
       THEN /\ spc' = "loop"
            /\ UNCHANGED <<queue, smsg>>
       ELSE /\ smsg' = Head(queue)
            /\ queue' = Tail(queue)
            /\ spc' = "send"
    /\ UNCHANGED <<pc, callerVars, tableVars, cacheVars, waitVars, nput,
                   stopVars, sent, busVars, workerVars>>

\* a frame with no payload asks the device for the command's value
IsReadRequest(msg) == msg.data = <<>> /\ msg.cmd \in ReadCmds

\* a frame that sets one of the parameters
IsParamFrame(msg) ==
    msg.data # <<>> /\ msg.cmd \in {SetCmd(k) : k \in ParamKeys}

\* `self._bus.send(msg)`; `task_done()`
SenderSend ==
    /\ spc = "send"
    /\ sent' = Append(sent, smsg.ser)
    /\ wire' = IF IsReadRequest(smsg)
               THEN [wire EXCEPT ![smsg.cmd] = @ + 1] ELSE wire
    /\ echo' = IF IsParamFrame(smsg)
               THEN echo \cup {InFrame(DIR_TO_CONTROLLER
                                          + NodeBits(smsg.arb),
                                       smsg.cmd, smsg.data)}
               ELSE echo
    /\ smsg' = NoFrame
    /\ spc' = "loop"
    /\ UNCHANGED <<pc, callerVars, tableVars, cacheVars, waitVars, queue,
                   nput, stopVars, jobs, injected, attached, warned,
                   fromSeen, workerVars>>

-----------------------------------------------------------------------------
(* Teardown *)

\* MessageSender.stop: `self._stop.set()` ...
StopSender ==
    /\ tpc = "run"
    /\ stopFlag' = TRUE
    /\ doneAtStop' = Len(sent) + (IF spc = "send" THEN 1 ELSE 0)
    /\ loopAtStop' = Len(sent) + (IF spc \in {"get", "send"} THEN 1 ELSE 0)
    /\ tpc' = "join"
    /\ UNCHANGED <<pc, callerVars, tableVars, cacheVars, waitVars, queue,
                   nput, spc, smsg, lstop, sent, busVars, workerVars>>

\* ... `self._thread.join()` returns once the worker thread has ended
StopJoin ==
    /\ tpc = "join"
    /\ spc \in {"stopped", "dead"}
    /\ tpc' = "done"
    /\ UNCHANGED <<pc, callerVars, tableVars, cacheVars, waitVars, queue,
                   nput, spc, smsg, stopFlag, doneAtStop, loopAtStop, lstop,
                   sent,
                   busVars, workerVars>>

\* BicListener.stop: `self._handler_job_queue.shutdown(cancel_futures=True)`
\* names an attribute the listener does not have; the pool keeps running
ListenerStop ==
    /\ lstop = "none"
    /\ lstop' = "AttributeError"
    /\ UNCHANGED <<pc, callerVars, tableVars, cacheVars, waitVars, queue,
                   nput, spc, smsg, stopFlag, tpc, doneAtStop, loopAtStop, sent,
                   busVars,
                   workerVars>>

-----------------------------------------------------------------------------
(* BicListener: the notifier thread *)

\* a dispatcher that does not compare the node bits
SubmitsAnyNode(f) ==
    /\ DirBits(f.arb) = DIR_TO_CONTROLLER
    /\ f.cmd # "SHORT"
    /\ f.cmd \in CommandHandlers

\* a dispatcher that submits a handler without looking the command up
SubmitsAny(f) ==
    /\ DirBits(f.arb) = DIR_TO_CONTROLLER
    /\ NodeBits(f.arb) = NodeBits(DefaultArbitrationId)
    /\ f.cmd # "SHORT"

\* on_message_received and _handle_to_controller: the frame's handler is
\* submitted when the direction bits are DIR_TO_CONTROLLER, the node bits are
\* the driver's, and the command has a handler; the struct.error of a payload
\* shorter than the command is caught and logged
Submits(f) ==
    /\ DirBits(f.arb) = DIR_TO_CONTROLLER
    /\ NodeBits(f.arb) = NodeBits(DefaultArbitrationId)
    /\ f.cmd # "SHORT"
    /\ f.cmd \in CommandHandlers

\* _handle_to_controller logs a warning for a frame meant for this node
\* whose command has no handler
Warns(f) ==
    /\ DirBits(f.arb) = DIR_TO_CONTROLLER
    /\ NodeBits(f.arb) = NodeBits(DefaultArbitrationId)
    /\ f.cmd # "SHORT"
    /\ f.cmd \notin CommandHandlers

on_message_received(f) ==
    /\ jobs' = IF Submits(f) THEN Append(jobs, f) ELSE jobs
    /\ warned' = IF Warns(f) THEN warned + 1 ELSE warned
    /\ fromSeen' = IF DirBits(f.arb) = DIR_FROM_CONTROLLER
                   THEN fromSeen + 1 ELSE fromSeen

\* the device answers a read request it received
DeviceRespond(c) ==
    /\ attached
    /\ wire[c] > 0
    /\ wire' = [wire EXCEPT ![c] = @ - 1]
    /\ \E f \in DeviceResponses(c) : on_message_received(f)
    /\ UNCHANGED <<pc, callerVars, tableVars, cacheVars, waitVars, senderVars,
                   echo, injected, attached, workerVars>>

\* the device reports a parameter back with the payload it was set with
DeviceEcho(f) ==
    /\ attached
    /\ f \in echo
    /\ echo' = echo \ {f}
    /\ on_message_received(f)
    /\ UNCHANGED <<pc, callerVars, tableVars, cacheVars, waitVars, senderVars,
                   wire, injected, attached, workerVars>>

\* a frame nobody asked for arrives
Inject(f, limit) ==
    /\ attached
    /\ injected < limit
    /\ injected' = injected + 1
    /\ on_message_received(f)
    /\ UNCHANGED <<pc, callerVars, tableVars, cacheVars, waitVars, senderVars,
                   wire, echo, attached, workerVars>>

-----------------------------------------------------------------------------
(* BicListener: the handlers, run by the pool workers *)

\* _handle_cmd_direction_ctrl, _handle_cmd_bidirectional_config and
\* _handle_cmd_system_config: the value decoded from the payload
DecodeConfig(cmd, data) ==
    CASE cmd = "DIRECTION_CTRL" -> PyInt(data[1])
      [] cmd = "BIDIRECTIONAL_CONFIG" -> [mode |-> And01(data[1])]
      [] cmd = "SYSTEM_CONFIG" ->
           [operation_init |-> Shr1(And06(data[1])),
            can_ctrl |-> And01(data[1])]

\* a handler that takes a missing payload byte for 0
WorkerTakeLenient(w) ==
    /\ pc[w] = "idle"
    /\ jobs # <<>>
    /\ wframe' = [wframe EXCEPT ![w] = Head(jobs)]
    /\ jobs' = Tail(jobs)
    /\ LET f == Head(jobs) IN
       CASE f.cmd = "OPERATION" ->
              IF Len(f.data) < 1
              THEN /\ wval' = [wval EXCEPT ![w] = Bool(FALSE)]
                   /\ pc' = [pc EXCEPT ![w] = "f_begin"]
                   /\ UNCHANGED wout
              ELSE /\ wval' = [wval EXCEPT ![w] = Bool(f.data[1] = 1)]
                   /\ pc' = [pc EXCEPT ![w] = "f_begin"]
                   /\ UNCHANGED wout
         [] f.cmd = "SCALING_FACTOR" ->
              IF Len(f.data) < 4
              THEN HandlerEnds(w, "IndexError") /\ UNCHANGED wval
              ELSE /\ wval' = [wval EXCEPT ![w] = ScalingTable(f.data)]
                   /\ pc' = [pc EXCEPT ![w] = "f_begin"]
                   /\ UNCHANGED wout
         [] f.cmd \in {SetCmd(k) : k \in ConfigKeys} ->
              IF Len(f.data) < 1
              THEN HandlerEnds(w, "IndexError") /\ UNCHANGED wval
              ELSE /\ wval' = [wval EXCEPT ![w] = DecodeConfig(f.cmd, f.data)]
                   /\ pc' = [pc EXCEPT ![w] = "f_begin"]
                   /\ UNCHANGED wout
         [] f.cmd \in ScaledCmds ->
              IF Len(f.data) # 2
              THEN HandlerEnds(w, "struct.error") /\ UNCHANGED wval
              ELSE /\ pc' = [pc EXCEPT ![w] = "lru"]
                   /\ UNCHANGED <<wval, wout>>
         [] f.cmd \in {"FAULT_STATUS", "SYSTEM_STATUS"} ->
              IF Len(f.data) < (IF f.cmd = "FAULT_STATUS" THEN 2 ELSE 1)
              THEN HandlerEnds(w, "IndexError") /\ UNCHANGED wval
              ELSE /\ wval' = [wval EXCEPT ![w] =
                                  IF f.cmd = "FAULT_STATUS"
                                  THEN FaultStatus(f.data)
                                  ELSE SystemStatus(f.data)]
                   /\ pc' = [pc EXCEPT ![w] = "f_begin"]
                   /\ UNCHANGED wout
         [] f.cmd \in MfrStrCmds ->
              IF ~Decodes(f.data)
              THEN HandlerEnds(w, "UnicodeDecodeError") /\ UNCHANGED wval
              ELSE /\ wval' = [wval EXCEPT ![w] = Utf8Decode(f.data)]
                   /\ pc' = [pc EXCEPT ![w] = "f_begin"]
                   /\ UNCHANGED wout
         [] f.cmd = "MFR_REVISION_B0B5" ->
              /\ wval' = [wval EXCEPT ![w] = [tuple |-> RevisionTuple(f.data)]]
              /\ pc' = [pc EXCEPT ![w] = "f_begin"]
              /\ UNCHANGED wout
    /\ UNCHANGED <<callerVars, tableVars, cacheVars, waitVars, senderVars,
                   wire, echo, injected, attached, warned, fromSeen, wdeq, witer,
                   wsnap, wstale>>

\* a pool worker takes the next submitted handler, which decodes the
\* payload: _handle_cmd_operation reads data[2], _handle_cmd_scaling_factor
\* reads data[2..5], _handle_cmd_read_vout unpacks data[2:dlc] and then reads
\* self._bic.scaling_factor
WorkerTake(w) ==
    /\ pc[w] = "idle"
    /\ jobs # <<>>
    /\ wframe' = [wframe EXCEPT ![w] = Head(jobs)]
    /\ jobs' = Tail(jobs)
    /\ LET f == Head(jobs) IN
       CASE f.cmd = "OPERATION" ->
              IF Len(f.data) < 1
              THEN HandlerEnds(w, "IndexError") /\ UNCHANGED wval
              ELSE /\ wval' = [wval EXCEPT ![w] = Bool(f.data[1] = 1)]
                   /\ pc' = [pc EXCEPT ![w] = "f_begin"]
                   /\ UNCHANGED wout
         [] f.cmd = "SCALING_FACTOR" ->
              IF Len(f.data) < 4
              THEN HandlerEnds(w, "IndexError") /\ UNCHANGED wval
              ELSE /\ wval' = [wval EXCEPT ![w] = ScalingTable(f.data)]
                   /\ pc' = [pc EXCEPT ![w] = "f_begin"]
                   /\ UNCHANGED wout
         [] f.cmd \in {SetCmd(k) : k \in ConfigKeys} ->
              IF Len(f.data) < 1
              THEN HandlerEnds(w, "IndexError") /\ UNCHANGED wval
              ELSE /\ wval' = [wval EXCEPT ![w] = DecodeConfig(f.cmd, f.data)]
                   /\ pc' = [pc EXCEPT ![w] = "f_begin"]
                   /\ UNCHANGED wout
         [] f.cmd \in ScaledCmds ->
              IF Len(f.data) # 2
              THEN HandlerEnds(w, "struct.error") /\ UNCHANGED wval
              ELSE /\ pc' = [pc EXCEPT ![w] = "lru"]
                   /\ UNCHANGED <<wval, wout>>
         [] f.cmd \in {"FAULT_STATUS", "SYSTEM_STATUS"} ->
              IF Len(f.data) < (IF f.cmd = "FAULT_STATUS" THEN 2 ELSE 1)
              THEN HandlerEnds(w, "IndexError") /\ UNCHANGED wval
              ELSE /\ wval' = [wval EXCEPT ![w] =
                                  IF f.cmd = "FAULT_STATUS"
                                  THEN FaultStatus(f.data)
                                  ELSE SystemStatus(f.data)]
                   /\ pc' = [pc EXCEPT ![w] = "f_begin"]
                   /\ UNCHANGED wout
         [] f.cmd \in MfrStrCmds ->
              IF ~Decodes(f.data)
              THEN HandlerEnds(w, "UnicodeDecodeError") /\ UNCHANGED wval
              ELSE /\ wval' = [wval EXCEPT ![w] = Utf8Decode(f.data)]
                   /\ pc' = [pc EXCEPT ![w] = "f_begin"]
                   /\ UNCHANGED wout
         [] f.cmd = "MFR_REVISION_B0B5" ->
              /\ wval' = [wval EXCEPT ![w] = [tuple |-> RevisionTuple(f.data)]]
              /\ pc' = [pc EXCEPT ![w] = "f_begin"]
              /\ UNCHANGED wout
    /\ UNCHANGED <<callerVars, tableVars, cacheVars, waitVars, senderVars,
                   wire, echo, injected, attached, warned, fromSeen, wdeq, witer,
                   wsnap, wstale>>

\* the raw value a scaled handler unpacks from the payload
RawValue(f) ==
    IF UnpacksSigned(f.cmd) THEN UnpackS16(f.data) ELSE UnpackU16(f.data)

\* _handle_cmd_read_vout and the other scaled handlers: raw * factor, which
\* raises TypeError when the table holds None for the factor
HandlerValue(w) ==
    /\ pc[w] = "h_val"
    /\ IF tmp[w][HandlerFactor(wframe[w].cmd)] = None
       THEN HandlerEnds(w, "TypeError") /\ UNCHANGED wval
       ELSE /\ wval' = [wval EXCEPT ![w] =
                           Scale(RawValue(wframe[w]),
                                 tmp[w][HandlerFactor(wframe[w].cmd)])]
            /\ pc' = [pc EXCEPT ![w] = "f_begin"]
            /\ UNCHANGED wout
    /\ UNCHANGED <<callerVars, tableVars, cacheVars, waitVars, senderVars,
                   busVars, wframe, wdeq, witer, wsnap, wstale>>

\* _fulfill_bic_promises: `if key not in self._bic._promises: return`, then
\* `for promise in self._bic._promises[key]` creates the iterator
FulfilBegin(w) ==
    /\ pc[w] = "f_begin"
    /\ LET key == HandlerKey(wframe[w].cmd) IN
       IF ~promisesAttr
       THEN HandlerEnds(w, "AttributeError")
            /\ UNCHANGED <<wdeq, witer, wsnap, wstale>>
       ELSE IF promises[key] = NoDeque
       THEN HandlerEnds(w, "nokey")
            /\ UNCHANGED <<wdeq, witer, wsnap, wstale>>
       ELSE /\ wdeq' = [wdeq EXCEPT ![w] = promises[key]]
            /\ witer' = [witer EXCEPT ![w] = deq[promises[key]]]
            /\ wsnap' = [wsnap EXCEPT ![w] = deq[promises[key]]]
            /\ wstale' = [wstale EXCEPT ![w] = FALSE]
            /\ pc' = [pc EXCEPT ![w] = "f_step"]
            /\ UNCHANGED wout
    /\ UNCHANGED <<callerVars, tableVars, cacheVars, waitVars, senderVars,
                   busVars, wframe, wval>>

\* Promise.set_result, first statement: `self._result = result`
set_result_store(p, v) ==
    /\ pval' = [pval EXCEPT ![p] = v]
    /\ pcnt' = [pcnt EXCEPT ![p] = @ + 1]

\* Promise.set_result, second statement: `self._ev.set()`
set_result_event(p) ==
    /\ pev' = [pev EXCEPT ![p] = TRUE]

\* `for promise in self._bic._promises[key]`: the iterator's next() raises
\* RuntimeError if the deque was mutated, ends the loop when exhausted, and
\* otherwise yields the next promise
FulfilStep(w) ==
    /\ pc[w] = "f_step"
    /\ IF wstale[w]
       THEN HandlerEnds(w, "RuntimeError")
       ELSE /\ pc' = [pc EXCEPT ![w] = IF witer[w] = <<>> THEN "f_clear"
                                       ELSE "f_set"]
            /\ UNCHANGED wout
    /\ UNCHANGED <<callerVars, tableVars, cacheVars, waitVars, senderVars,
                   busVars, wframe, wval, wdeq, witer, wsnap, wstale>>

\* `promise.set_result(value)` on the promise the iterator yielded, up to the
\* store of the result; other threads may have run since the next() that
\* yielded the promise
FulfilSet(w) ==
    /\ pc[w] = "f_set"
    /\ set_result_store(Head(witer[w]), wval[w])
    /\ pc' = [pc EXCEPT ![w] = "f_event"]
    /\ UNCHANGED <<callerVars, promisesAttr, promises, deq, pev, cacheVars,
                   waitVars, senderVars, busVars, workerVars>>

\* the rest of that set_result: the event is set, which wakes the waiters,
\* and the loop goes to its next turn; other threads may have run since the
\* store
FulfilEvent(w) ==
    /\ pc[w] = "f_event"
    /\ set_result_event(Head(witer[w]))
    /\ witer' = [witer EXCEPT ![w] = Tail(@)]
    /\ pc' = [pc EXCEPT ![w] = "f_step"]
    /\ UNCHANGED <<callerVars, promisesAttr, promises, deq, pval, pcnt,
                   cacheVars, waitVars, senderVars, busVars, wframe, wval,
                   wdeq, wsnap, wstale, wout>>

\* `self._bic._promises[key].clear()`
FulfilClear(w) ==
    /\ pc[w] = "f_clear"
    /\ LET d == promises[HandlerKey(wframe[w].cmd)] IN
       /\ deq' = [deq EXCEPT ![d] = <<>>]
       /\ wstale' = IF deq[d] = <<>> THEN wstale ELSE Staled(d)
    /\ HandlerEnds(w, "ok")
    /\ UNCHANGED <<callerVars, promisesAttr, promises, pval, pev, pcnt,
                   cacheVars,
                   waitVars, senderVars, busVars, wframe, wval, wdeq, witer,
                   wsnap>>

\* the handler's outcome is stored in its future and the worker is free
WorkerEnd(w) ==
    /\ pc[w] = "h_end"
    /\ pc' = [pc EXCEPT ![w] = "idle"]
    /\ wframe' = [wframe EXCEPT ![w] = NoFrame]
    /\ wval' = [wval EXCEPT ![w] = None]
    /\ wdeq' = [wdeq EXCEPT ![w] = NoDeque]
    /\ witer' = [witer EXCEPT ![w] = <<>>]
    /\ wsnap' = [wsnap EXCEPT ![w] = <<>>]
    /\ wstale' = [wstale EXCEPT ![w] = FALSE]
    /\ wout' = [wout EXCEPT ![w] = "none"]
    /\ UNCHANGED <<callerVars, tableVars, cacheVars, waitVars, senderVars,
                   busVars>>

-----------------------------------------------------------------------------
(* Specifications *)

\* the steps of one thread inside wait_for and the cache wrapper
WaitStep(t) ==
    \/ WfCheck(t)
    \/ WfCreate(t)
    \/ WfAppend(t)
    \/ WfSend(t)
    \/ WfResult(t)
    \/ LruLookup(t)
    \/ LruStore(t)

\* the steps of a pool worker running a handler
WorkerStep(w) ==
    \/ WorkerTake(w)
    \/ HandlerValue(w)
    \/ FulfilBegin(w)
    \/ FulfilStep(w)
    \/ FulfilSet(w)
    \/ FulfilEvent(w)
    \/ FulfilClear(w)
    \/ WorkerEnd(w)

\* the steps of the sender worker
SenderStep ==
    \/ SenderLoop
    \/ SenderGet
    \/ SenderSend

\* The driver in use: callers read properties while the sender, the device
\* and the dispatcher run, and frames nobody asked for arrive.
Next ==
    \/ \E t \in Callers : \E k \in GetKeys : CallGet(t, k)
    \/ \E t \in Callers : CallScaling(t)
    \/ \E t \in Threads : WfCheck(t)
    \/ \E t \in Threads : WfCreate(t)
    \/ \E t \in Threads : WfAppend(t)
    \/ \E t \in Threads : WfSend(t)
    \/ \E t \in Threads : WfResult(t)
    \/ \E t \in Threads : LruLookup(t)
    \/ SenderStep
    \/ \E c \in ModelledCmds : DeviceRespond(c)
    \/ \E f \in UnsolicitedFrames : Inject(f, MaxInject)
    \/ \E w \in Workers : WorkerStep(w)

Spec == Init /\ [][Next]_vars

\* The same without unsolicited frames, every thread being scheduled again
\* and again and the device answering every read request.
FairNext ==
    \/ \E t \in Callers : \E k \in GetKeys : CallGet(t, k)
    \/ \E t \in Threads : WfCheck(t)
    \/ \E t \in Threads : WfCreate(t)
    \/ \E t \in Threads : WfAppend(t)
    \/ \E t \in Threads : WfSend(t)
    \/ \E t \in Threads : WfResult(t)
    \/ \E t \in Threads : LruLookup(t)
    \/ SenderStep
    \/ \E c \in ModelledCmds : DeviceRespond(c)
    \/ \E w \in Workers : WorkerStep(w)

Scheduling ==
    /\ \A t \in Threads : WF_vars(WaitStep(t))
    /\ \A w \in Workers : WF_vars(WorkerStep(w))
    /\ WF_vars(SenderStep)

FairSpec ==
    /\ Init
    /\ [][FairNext]_vars
    /\ Scheduling
    /\ \A c \in ModelledCmds : WF_vars(DeviceRespond(c))

\* The same with a device that never answers READ_VOUT.
AnsweredCmds == ModelledCmds \ {"READ_VOUT"}

SilentNext ==
    \/ \E t \in Callers : \E k \in GetKeys : CallGet(t, k)
    \/ \E t \in Threads : WfCheck(t)
    \/ \E t \in Threads : WfCreate(t)
    \/ \E t \in Threads : WfAppend(t)
    \/ \E t \in Threads : WfSend(t)
    \/ \E t \in Threads : WfResult(t)
    \/ SenderStep
    \/ \E c \in AnsweredCmds : DeviceRespond(c)
    \/ \E w \in Workers : WorkerTake(w)
    \/ \E w \in Workers : FulfilBegin(w)
    \/ \E w \in Workers : FulfilStep(w)
    \/ \E w \in Workers : FulfilSet(w)
    \/ \E w \in Workers : FulfilEvent(w)
    \/ \E w \in Workers : FulfilClear(w)
    \/ \E w \in Workers : WorkerEnd(w)

SilentSpec ==
    /\ Init
    /\ [][SilentNext]_vars
    /\ Scheduling
    /\ \A c \in AnsweredCmds : WF_vars(DeviceRespond(c))

\* The setters: callers assign to the range-checked properties of a driver
\* whose scaling table is any of these.
SetterPayloads ==
    {<<85, 118, 6, 0>>, <<0, 118, 6, 0>>, <<51, 118, 6, 0>>,
     <<153, 118, 6, 0>>}

InitSetter ==
    /\ InitCommon
    /\ op = [t \in Callers |-> NoOp]
    /\ pc = [t \in Threads |-> "idle"]
    /\ promisesAttr = TRUE
    /\ promises = [k \in Keys |-> IF k = "scaling_factor" THEN <<1, 0>>
                                  ELSE NoDeque]
    /\ deq = [d \in PromiseIds |-> <<>>]
    /\ \E p \in SetterPayloads :
          /\ cache = ScalingTable(p)
          /\ sfReturned = {ScalingTable(p)}
    /\ attached = TRUE

SetterNext ==
    \/ \E t \in Callers : \E k \in SetKeys : \E v \in SetValues(k) :
          CallSet(t, k, v)
    \/ \E t \in Callers : LruLookup(t)
    \/ \E t \in Callers : SetSend(t)
    \/ SenderStep

SetterSpec == InitSetter /\ [][SetterNext]_vars

\* The sender alone: callers assign to Bic.operation, whose setter only
\* builds a frame and sends it.
SenderNext ==
    \/ \E t \in Callers : CallSetOperation(t, TRUE, MaxSends)
    \/ \E t \in Callers : OperationSend(t)
    \/ SenderStep

SenderSpec == Init /\ [][SenderNext]_vars

\* Construction: Bic.__init__ attaches the listener, creates the promise
\* table and prefetches the scaling table, while frames arrive; afterwards
\* callers read scaling_factor.
CtorFrames ==
    {InFrame(DIR_TO_CONTROLLER, "READ_VOUT", <<136, 19>>),
     InFrame(DIR_TO_CONTROLLER, "SCALING_FACTOR", SfPayloadB)}

InitCtor ==
    /\ InitCommon
    /\ op = [t \in Callers |->
               IF t = 1 THEN [kind |-> "ctor", key |-> "scaling_factor",
                              val |-> None, nenq |-> 0]
               ELSE NoOp]
    /\ pc = [t \in Threads |-> IF t = 1 THEN "ctor_attach" ELSE "idle"]
    /\ promisesAttr = FALSE
    /\ promises = [k \in Keys |-> NoDeque]
    /\ deq = [d \in PromiseIds |-> <<>>]
    /\ cache = NoCache
    /\ sfReturned = {}
    /\ attached = FALSE

CtorNext ==
    \/ CtorAttach
    \/ CtorPromises
    \/ \E t \in Callers : CallScaling(t)
    \/ \E t \in Threads : WaitStep(t)
    \/ SenderStep
    \/ \E c \in ModelledCmds : DeviceRespond(c)
    \/ \E f \in CtorFrames : Inject(f, MaxCtorInject)
    \/ \E w \in Workers : WorkerStep(w)

CtorSpec == InitCtor /\ [][CtorNext]_vars

\* Teardown: callers read Bic.operation, the device answers every request
\* it receives, and the application stops the sender and the listener.
TeardownNext ==
    \/ \E t \in Callers : CallGet(t, "operation")
    \/ \E t \in Callers : WfCheck(t)
    \/ \E t \in Callers : WfCreate(t)
    \/ \E t \in Callers : WfAppend(t)
    \/ \E t \in Callers : WfSend(t)
    \/ \E t \in Callers : WfResult(t)
    \/ SenderStep
    \/ DeviceRespond("OPERATION")
    \/ \E w \in Workers : WorkerTake(w)
    \/ \E w \in Workers : FulfilBegin(w)
    \/ \E w \in Workers : FulfilStep(w)
    \/ \E w \in Workers : FulfilSet(w)
    \/ \E w \in Workers : FulfilEvent(w)
    \/ \E w \in Workers : FulfilClear(w)
    \/ \E w \in Workers : WorkerEnd(w)
    \/ StopSender
    \/ StopJoin
    \/ ListenerStop

TeardownSpec ==
    /\ Init
    /\ [][TeardownNext]_vars
    /\ Scheduling
    /\ WF_vars(DeviceRespond("OPERATION"))
    /\ WF_vars(StopJoin)

\* The parameters: callers assign to the settable parameters, the frames are
\* transmitted, and the device reports each back with the payload it got.
CodecNext ==
    \/ \E t \in Callers : \E v \in BOOLEAN : CallSetOperation(t, v, MaxCalls)
    \/ \E t \in Callers : OperationSend(t)
    \/ \E t \in Callers : \E k \in ConfigKeys : \E v \in ParamValues(k) :
          CallSetParam(t, k, v)
    \/ \E t \in Callers : ParamSend(t)
    \/ SenderStep
    \/ \E f \in ParamFrames : DeviceEcho(f)
    \/ \E w \in Workers : WorkerTake(w)
    \/ \E w \in Workers : FulfilBegin(w)
    \/ \E w \in Workers : WorkerEnd(w)

CodecSpec == Init /\ [][CodecNext]_vars

\* The scaling table: scaling-factor frames arrive whose payload bytes are
\* a + 16 b, b + 16 a, a + 16 b, b + 16 a for nibbles a and b.  No thread
\* reads a property here, so the list of waiters the handler walks is empty
\* and its loop body (FulfilSet) has nothing to run on.
NibblePayload(a, b) == <<a + 16 * b, b + 16 * a, a + 16 * b, b + 16 * a>>

TableFrames ==
    {InFrame(DIR_TO_CONTROLLER, "SCALING_FACTOR", NibblePayload(a, b)) :
        a \in 0..15, b \in 0..15}

TableNext ==
    \/ \E f \in TableFrames : Inject(f, MaxInject)
    \/ \E w \in Workers : WorkerTake(w)
    \/ \E w \in Workers : FulfilBegin(w)
    \/ \E w \in Workers : FulfilStep(w)
    \/ \E w \in Workers : FulfilClear(w)
    \/ \E w \in Workers : WorkerEnd(w)

TableSpec == Init /\ [][TableNext]_vars

\* Every read accessor: the application reads any property from one thread
\* and, when that read has returned and the driver is at rest, a cached
\* property from another, while the device answers each request.
AtRest ==
    /\ \A t \in Threads : pc[t] = "idle"
    /\ queue = <<>> /\ smsg = NoFrame /\ jobs = <<>>
    /\ \A c \in ReadCmds : wire[c] = 0

ReadPlain(k) == AtRest /\ CallGet(1, k)
ReadMfr(t, k) == AtRest /\ CallMfr(t, k)
ReadMfrPair(t, k) == AtRest /\ CallMfrPair(t, k)

AccessorNext ==
    \/ \E k \in PlainKeys : ReadPlain(k)
    \/ \E t \in Callers : \E k \in MfrKeys : ReadMfr(t, k)
    \/ \E t \in Callers : \E k \in PairKeys : ReadMfrPair(t, k)
    \/ \E t \in Callers : MfrLookup(t)
    \/ \E t \in Callers : MfrStore(t)
    \/ \E t \in Threads : WfCheck(t)
    \/ \E t \in Threads : WfCreate(t)
    \/ \E t \in Threads : WfAppend(t)
    \/ \E t \in Threads : WfSend(t)
    \/ \E t \in Threads : WfResult(t)
    \/ \E t \in Threads : LruLookup(t)
    \/ SenderStep
    \/ \E c \in ReadCmds : DeviceRespond(c)
    \/ \E w \in Workers : WorkerStep(w)

AccessorSpec == Init /\ [][AccessorNext]_vars

-----------------------------------------------------------------------------
(* Properties *)

Range(q) == {q[i] : i \in 1..Len(q)}

\* the promises a fulfilment has set so far: those of the deque's contents at
\* the start of its loop that its iterator has already yielded
Delivered(w) == {wsnap[w][i] : i \in 1..(Len(wsnap[w]) - Len(witer[w]))}

\* the promises registered in the table
InTable == UNION {Range(deq[promises[k]]) : k \in {j \in Keys : promises[j] # NoDeque}}

\* C1: broadcast correlation.  When a fulfilment ends, every one of the two or
\* more waiters that were registered under its key when it began has been
\* given its value; and a promise is only ever fulfilled by a running
\* fulfilment that found it registered when it began, with that fulfilment's
\* value (so never with the value of a fulfilment that completed before the
\* waiter registered).
C1_EveryWaiterDelivered ==
    \A w \in Workers :
        (pc[w] = "h_end" /\ Len(wsnap[w]) >= 2)
            => Delivered(w) = Range(wsnap[w])

C1_OnlyRunningFulfils ==
    \A p \in PromiseIds :
        /\ (pval'[p] # pval[p] \/ pcnt'[p] # pcnt[p])
               => \E w \in Workers :
                     /\ pc[w] = "f_set"
                     /\ p \in Range(wsnap[w])
                     /\ pval'[p] = wval[w]
        /\ pev'[p] # pev[p]
               => \E w \in Workers :
                     /\ pc[w] = "f_event"
                     /\ p \in Range(wsnap[w])

C1_BroadcastCorrelation ==
    /\ []C1_EveryWaiterDelivered
    /\ [][C1_OnlyRunningFulfils]_vars

\* C2: every caller blocked in a read accessor eventually returns, the
\* scaling table being resolved, the device answering every transmitted
\* request and every thread being scheduled again and again.
C2_EveryReadReturns ==
    \A t \in Callers : (pc[t] = "wf_wait") ~> (pc[t] = "idle")

\* C3: fulfilment is atomic with respect to registration.  The clear that
\* ends a fulfilment removes from the table only promises that have been
\* fulfilled: a registration falls before the fulfilment, and the waiter gets
\* the value and is removed, or after it, and the waiter stays registered.
C3_ClearedOnlyIfFulfilled ==
    \A w \in Workers :
        (pc[w] = "f_clear" /\ pc'[w] = "h_end")
            => \A p \in Range(deq[promises[HandlerKey(wframe[w].cmd)]]) :
                  pev[p]

C3_AtomicFulfilment == [][C3_ClearedOnlyIfFulfilled]_vars

\* C4: every wait is bounded.  A caller blocked in a read accessor whose
\* response never arrives eventually returns with a timeout error.
C4_WaitIsBounded ==
    \A t \in Callers :
        (pc[t] = "wf_wait" /\ wfkey[t] = "v_out")
            ~> (pc[t] = "idle" /\ result[t].kind = "get"
                /\ result[t].out = "TimeoutError")

\* the threads whose read of scaling_factor missed the cache
Missed == {t \in Threads : wfkey[t] = "scaling_factor"}

\* C5: single-flight scaling fetch.  When two or more readers of
\* scaling_factor (the constructor, application threads, pool workers decoding
\* a numeric frame) have found the table unresolved, one scaling-factor
\* request frame at most has been enqueued in total, and the reads return one
\* and the same table.
C5_SingleFlightFetch ==
    Cardinality(Missed) >= 2
        => (sfRequests <= 1 /\ Cardinality(sfReturned) <= 1)

\* C6: the scaling table is cached once resolved.  A read of scaling_factor
\* that begins after reads have returned a table T returns T, registers no
\* waiter and enqueues no request frame, whatever frames have been received.
C6_CachedOnceResolved ==
    \A t \in Callers :
        /\ (op[t].kind = "get" /\ op[t].key = "scaling_factor"
                /\ op[t].val # {})
              => (pc[t] = "lru" /\ op[t].nenq = 0)
        /\ (result[t].kind = "get" /\ result[t].key = "scaling_factor")
              => (\A T \in result[t].val :
                     result[t].ret = T /\ result[t].nenq = 0)

\* C7: range validation precedes transmission.  A call of a bounded setter
\* with a value outside its bounds raises the range error and enqueues no
\* frame; a call with a value within the bounds, the bounds included, returns
\* normally and enqueues exactly one frame; and the frames enqueued are those
\* of the accepted calls.
C7_RangeValidationPrecedes ==
    /\ \A t \in Callers :
          (result[t].kind = "set" /\ result[t].key \in SetKeys)
              => IF OutOfRange(result[t].key, result[t].val)
                 THEN result[t].out = "ValueError" /\ result[t].nenq = 0
                 ELSE result[t].out = "ok" /\ result[t].nenq = 1
    /\ nput = Cardinality({t \in Callers : result[t].kind = "set"
                                            /\ result[t].out = "ok"})

\* the calls of the operation setter started so far
Started == {c \in Callers \X (1..MaxSends) : c[2] <= ncalls[c[1]]}

\* the callers inside MessageSender.send
Sending == {t \in Callers : pc[t] = "op_send"}

\* C8 as stated: a send that finds the queue holding its 16 frames does not
\* block: the caller has a step to take, the return of the FullQueueError.
C8_FullQueueError ==
    \A t \in Callers :
        (pc[t] = "op_send" /\ Len(queue) = QueueMaxsize)
            => ENABLED OperationSend(t)

\* What MessageSender.send does instead at a full queue (queue.put with its
\* default block=True): the queue never holds more than 16 frames; a send
\* that finds it full blocks its caller, who takes no step while it is full;
\* no call raises; no frame is dropped: every call that has returned enqueued
\* its one frame, and every enqueued frame is in the queue, in the worker's
\* hands or transmitted.
C8_FullQueueBlocks ==
    /\ Len(queue) <= QueueMaxsize
    /\ \A t \in Sending :
          Len(queue) = QueueMaxsize => ~ENABLED OperationSend(t)
    /\ \A t \in Callers :
          result[t].kind = "set"
              => (result[t].out = "ok" /\ result[t].nenq = 1)
    /\ nput = Cardinality(Started) - Cardinality(Sending)
    /\ nput = Len(sent) + Len(queue) + (IF spc = "send" THEN 1 ELSE 0)

C8_CallerBlocked ==
    \E t \in Sending : /\ Len(queue) = QueueMaxsize
                        /\ nput = QueueMaxsize + Len(sent)

\* C9: FIFO transmission.  Frames being numbered in the order their enqueues
\* completed, the frames handed to the transport are frames 1, 2, 3, ... in
\* that order: a prefix of the enqueue order, with no frame twice, out of
\* order, or never enqueued.
C9_FifoTransmission ==
    /\ Len(sent) <= nput
    /\ \A i \in 1..Len(sent) : sent[i] = i

C9_SentWhileEnqueuing ==
    /\ Len(sent) >= 2
    /\ Len(queue) >= 2
    /\ \A t \in Callers : ncalls[t] >= 2 /\ pc[t] = "op_send"

\* C10: an unknown command is inert.  The step that receives a frame which
\* passes the direction and node filter and whose command has no handler (the
\* step that logs the warning) submits no handler and leaves the waiter
\* table, every promise, the scaling cache and the outbound queue unchanged.
C10_UnknownLeavesState ==
    warned' # warned
        => /\ jobs' = jobs
           /\ promises' = promises /\ deq' = deq
           /\ pval' = pval /\ pev' = pev /\ pcnt' = pcnt
           /\ cache' = cache
           /\ queue' = queue /\ nput' = nput

C10_UnknownCommandInert == [][C10_UnknownLeavesState]_vars

C10_UnknownReceived ==
    /\ warned >= 1
    /\ jobs = <<>>
    /\ \E t \in Callers : pc[t] = "wf_wait" /\ ~pev[wfprom[t]]
    /\ queue # <<>>

\* the frames whose handlers are submitted or running
Handled ==
    Range(jobs) \cup {wframe[w] : w \in {x \in Workers : wframe[x] # NoFrame}}

\* a step of the notifier thread: a frame is received
Receives ==
    \/ injected' # injected
    \/ \E c \in ReadCmds : wire'[c] < wire[c]
    \/ echo' # echo /\ echo' \subseteq echo

\* C11 as stated: a frame is decoded only when its identifier masked with
\* 0xFFF00 is the constant 0xC0300 and its low 8 bits are the driver's node.
C11_FromDeviceOnly ==
    \A f \in Handled :
        /\ DirBits(f.arb) = DIR_FROM_CONTROLLER
        /\ NodeBits(f.arb) = NodeBits(DefaultArbitrationId)

\* C11 amended: a frame is decoded only when its identifier masked with
\* 0xFFF00 is the to-controller constant 0xC0200 and its low 8 bits are the
\* driver's node; the reception of any frame changes neither the waiter
\* table, nor a promise, nor the cache, nor the queue, and the reception of a
\* frame with the constant 0xC0300 submits no handler either.
C11_HandledPassFilter ==
    \A f \in Handled :
        /\ DirBits(f.arb) = DIR_TO_CONTROLLER
        /\ NodeBits(f.arb) = NodeBits(DefaultArbitrationId)

C11_ReceptionLeavesState ==
    /\ Receives => UNCHANGED <<tableVars, cache, queue, nput>>
    /\ fromSeen' # fromSeen => jobs' = jobs

C11_InboundFilter ==
    /\ []C11_HandledPassFilter
    /\ [][C11_ReceptionLeavesState]_vars

C11_OtherFrameIgnored ==
    /\ fromSeen >= 1
    /\ jobs = <<>>
    /\ \A w \in Workers : pc[w] = "idle"
    /\ \E t \in Callers : /\ pc[t] = "wf_wait"
                           /\ wfkey[t] = "operation"
                           /\ ~pev[wfprom[t]]

\* the driver has been torn down: MessageSender.stop has returned and
\* BicListener.stop has been called
TornDown == tpc = "done" /\ lstop # "none"

\* C12: teardown unblocks waiters.  A caller that is blocked in a read
\* accessor when the driver has been torn down is eventually released.
C12_TeardownUnblocks ==
    \A t \in Callers :
        (TornDown /\ pc[t] = "wf_wait") ~> (pc[t] = "idle")

\* a parameter value as a handler hands it to the promises
AsDecoded(k, v) ==
    CASE k = "operation" -> Bool(v)
      [] k = "direction_ctrl" -> PyInt(v)
      [] OTHER -> v

\* C13: encode/decode round trip.  When the handler of a parameter's command
\* has decoded a frame carrying the payload that the setter builds for an
\* in-range value v, the decoded value is v.
C13_RoundTrip ==
    \A w \in Workers :
        pc[w] = "f_begin"
            => \A k \in ParamKeys : \A v \in ParamValues(k) :
                  (wframe[w].cmd = SetCmd(k)
                      /\ wframe[w].data = EncodeParam(k, v))
                      => wval[w] = AsDecoded(k, v)

\* the factor a raw nibble stands for: absent for 0, else ten to the power
\* n - 7
FactorOf(n) ==
    IF n = 0 THEN None
    ELSE IF n - 7 >= 0 THEN Rat(Pow10(n - 7), 1) ELSE Rat(1, Pow10(7 - n))

\* C14: scaling-factor decoding.  The table decoded from a payload whose
\* bytes are a + 16 b, b + 16 a, a + 16 b, b + 16 a has the factors of a for
\* v_out, fan_speed and temperature and the factors of b for i_out, v_in and
\* i_in, where the factor of a nibble n in 1..15 is ten to the power n - 7
\* and the factor of 0 is the absent value, which is no number.
C14_ScalingDecoding ==
    \A w \in Workers :
        (pc[w] = "f_begin" /\ wframe[w].cmd = "SCALING_FACTOR")
            => \A a \in 0..15 : \A b \in 0..15 :
                  wframe[w].data = NibblePayload(a, b)
                      => /\ wval[w].v_out = FactorOf(a)
                         /\ wval[w].i_out = FactorOf(b)
                         /\ wval[w].v_in = FactorOf(b)
                         /\ wval[w].fan_speed = FactorOf(a)
                         /\ wval[w].temperature = FactorOf(a)
                         /\ wval[w].i_in = FactorOf(b)
                         /\ (a = 0) = (wval[w].v_out = None)
                         /\ (b = 0) = (wval[w].i_in = None)

C14_AbsentAndLargest ==
    \E w \in Workers :
        /\ pc[w] = "f_begin"
        /\ wframe[w].data = NibblePayload(0, 15)
        /\ wval[w].v_out = None
        /\ wval[w].i_out = Rat(100000000, 1)

\* the pool workers blocked in a numeric decoder on the scaling table
AwaitingTable ==
    {w \in Workers : /\ pc[w] = "wf_wait"
                      /\ wfkey[w] = "scaling_factor"
                      /\ ~pev[wfprom[w]]}

\* C15: no self-deadlock on the scaling fetch.  It never happens that every
\* worker of the pool is blocked in a numeric decoder waiting for the scaling
\* table while a scaling-factor response waits in the pool's queue for a free
\* worker.
C15_NoSelfDeadlock ==
    ~ /\ AwaitingTable = Workers
      /\ \E i \in 1..Len(jobs) : jobs[i].cmd = "SCALING_FACTOR"

\* the pool workers inside the loop of _fulfill_bic_promises or at its clear()
Fulfilling ==
    {w \in Workers : pc[w] \in {"f_step", "f_set", "f_event", "f_clear"}}

\* C16: same value under concurrent fulfilment.  When two responses for the
\* same command carrying different values are being fulfilled by the two pool
\* workers, every waiter that was in the table when both fulfilments started
\* has its result set at most once, and the waiters already set hold one and
\* the same value.
C16_SameValueOnce ==
    \A w1 \in Fulfilling : \A w2 \in Fulfilling \ {w1} :
        (wdeq[w1] = wdeq[w2] /\ wval[w1] # wval[w2])
            => \A p \in Range(wsnap[w1]) \cap Range(wsnap[w2]) :
                  /\ pcnt[p] <= 1
                  /\ \A q \in Range(wsnap[w1]) \cap Range(wsnap[w2]) :
                        (pcnt[p] > 0 /\ pcnt[q] > 0) => pval[p] = pval[q]

-----------------------------------------------------------------------------
(* Transport failures *)

\* `self._bus.send(msg)` raises: _worker catches only queue.Empty, so the
\* exception leaves the loop and the thread ends; the frame is not sent
SenderSendRaises ==
    /\ spc = "send"
    /\ smsg' = NoFrame
    /\ spc' = "dead"
    /\ UNCHANGED <<pc, callerVars, tableVars, cacheVars, waitVars, queue,
                   nput, stopVars, sent, busVars, workerVars>>

\* The sender alone, over a transport whose send may raise.
FailNext ==
    \/ SenderNext
    \/ SenderSendRaises

FailSpec ==
    /\ Init
    /\ [][FailNext]_vars
    /\ WF_vars(SenderStep)

\* the number of frames the worker has taken from the queue
Popped == nput - Len(queue)

\* C17: the sender survives transport failures.  Whether or not a send of
\* the transport has raised, the n-th frame put into the queue is eventually
\* taken from it by the worker and handed to the transport.
C17_SenderSurvives ==
    \A n \in 1..MaxSends : (nput >= n) ~> (Popped >= n)

-----------------------------------------------------------------------------
(* Frames whose payload is too short *)

MalformedFrames ==
    {InFrame(DIR_TO_CONTROLLER, "OPERATION", <<>>),
     InFrame(DIR_TO_CONTROLLER, "READ_VOUT", <<136>>),
     InFrame(DIR_TO_CONTROLLER, "SCALING_FACTOR", <<85, 118>>),
     InFrame(DIR_TO_CONTROLLER, "SHORT", <<>>)}

\* The driver in use with every thread scheduled again and again, one caller
\* reading operation and the other v_out, while frames with a short payload
\* arrive.
DecodeKey(t) == IF t = 1 THEN "operation" ELSE "v_out"

DecodeNext ==
    \/ \E t \in Callers : CallGet(t, DecodeKey(t))
    \/ \E t \in Threads : WfCheck(t)
    \/ \E t \in Threads : WfCreate(t)
    \/ \E t \in Threads : WfAppend(t)
    \/ \E t \in Threads : WfSend(t)
    \/ \E t \in Threads : WfResult(t)
    \/ \E t \in Threads : LruLookup(t)
    \/ SenderStep
    \/ \E c \in ModelledCmds \ {"SCALING_FACTOR"} : DeviceRespond(c)
    \/ \E f \in MalformedFrames : Inject(f, MaxInject)
    \/ \E w \in Workers : WorkerStep(w)

DecodeSpec ==
    /\ Init
    /\ [][DecodeNext]_vars
    /\ Scheduling
    /\ \A c \in ModelledCmds \ {"SCALING_FACTOR"} : WF_vars(DeviceRespond(c))

\* the payload is long enough for the handler of the frame's command
Decodable(f) ==
    CASE f.cmd = "OPERATION" -> Len(f.data) >= 1
      [] f.cmd = "SCALING_FACTOR" -> Len(f.data) >= 4
      [] f.cmd \in ScaledCmds -> Len(f.data) = 2
      [] f.cmd \in {SetCmd(k) : k \in ConfigKeys} -> Len(f.data) >= 1
      [] OTHER -> FALSE

DecodeErrors == {"IndexError", "struct.error"}

\* a promise is set only by a worker whose frame was decoded in full
C18_SetByDecodedFrame ==
    \A p \in PromiseIds :
        /\ pcnt'[p] # pcnt[p]
               => \E w \in Workers : /\ pc[w] = "f_set"
                                     /\ Decodable(wframe[w])
                                     /\ wval[w] # None
                                     /\ pval'[p] = wval[w]
        /\ pev'[p] # pev[p]
               => \E w \in Workers : /\ pc[w] = "f_event"
                                     /\ Decodable(wframe[w])
                                     /\ wval[w] # None

\* the step in which a handler fails to decode leaves every waiter alone
C18_FailureLeavesWaiters ==
    \A w \in Workers :
        (pc[w] = "idle" /\ pc'[w] = "h_end" /\ wout'[w] \in DecodeErrors)
            => UNCHANGED <<tableVars, result>>

\* a handler whose frame is complete does not end with a decode error
C18_CompleteFrameDecoded ==
    \A w \in Workers :
        (pc[w] # "h_end" /\ pc'[w] = "h_end" /\ wout'[w] \in DecodeErrors)
            => (pc[w] = "idle" /\ ~Decodable(wframe'[w]))

\* C18: decode errors are contained per frame.  A frame whose payload is too
\* short for its command sets the result of no waiter and changes no waiter
\* table; a result is only ever set to the value decoded from a complete
\* frame, and a complete frame is decoded; and once a short frame has
\* arrived, every frame submitted to the pool is still taken by a worker and
\* every handler runs to its end.
C18_DecodeErrorsContained ==
    /\ [][C18_SetByDecodedFrame]_vars
    /\ [][C18_FailureLeavesWaiters]_vars
    /\ [][C18_CompleteFrameDecoded]_vars
    /\ (injected > 0) ~> (jobs = <<>> /\ \A w \in Workers : pc[w] = "idle")

\* a handler has failed on a short payload while a caller waits under the
\* frame's command, its promise registered and not set
C18_FailedWhileWaiting ==
    \E w \in Workers : \E t \in Callers :
        /\ pc[w] = "h_end"
        /\ wout[w] \in DecodeErrors
        /\ pc[t] = "wf_wait"
        /\ wfkey[t] = HandlerKey(wframe[w].cmd)
        /\ wfprom[t] \in InTable
        /\ ~pev[wfprom[t]]

-----------------------------------------------------------------------------
(* Stopping the sender *)

\* The sender alone, stopped at any moment: callers keep assigning to
\* Bic.operation while the application calls MessageSender.stop.
StopNext ==
    \/ SenderNext
    \/ StopSender
    \/ StopJoin

StopSpec ==
    /\ Init
    /\ [][StopNext]_vars
    /\ WF_vars(SenderStep)
    /\ WF_vars(StopJoin)

\* C19 as stated: once the stop signal is set the worker finishes at most the
\* frame it is transmitting at that moment; no frame that is still in the
\* queue then is transmitted.
C19_AtMostCurrentFrame ==
    stopFlag => Len(sent) + (IF spc = "send" THEN 1 ELSE 0) <= doneAtStop

\* C19: the sender's stop terminates.  Once the stop signal is set the worker
\* finishes at most the turn of its loop it is in (the frame it is
\* transmitting or, when it has passed the test of the stop flag, the frame
\* it takes from the queue next); it leaves the loop holding no frame; it
\* ends, so that stop() returns; and the frames left in the queue are not
\* transmitted afterwards.
C19_StopTerminates ==
    /\ [](stopFlag
            => Len(sent) + (IF spc = "send" THEN 1 ELSE 0) <= loopAtStop)
    /\ [](spc = "stopped" => smsg = NoFrame)
    /\ [][spc = "stopped" => UNCHANGED <<spc, sent>>]_vars
    /\ stopFlag ~> (tpc = "done" /\ spc = "stopped")

\* stop() has returned with frames left in the queue, the worker having
\* transmitted a frame it took after the stop signal was set
C19_StoppedWithQueuedFrames ==
    /\ tpc = "done"
    /\ queue # <<>>
    /\ Len(sent) = loopAtStop
    /\ loopAtStop > doneAtStop

\* the threads inside wait_for that have not yet appended their promise
Registering ==
    {t \in Threads : pc[t] \in {"wf_check", "wf_create", "wf_append"}}

\* the request frames of thread t's call in the outbound queue or in the
\* hands of the sender worker
RequestsOf(t) ==
    {i \in 1..Len(queue) : queue[i].by = CallId(t)}
        \cup (IF smsg # NoFrame /\ smsg.by = CallId(t) THEN {0} ELSE {})

\* C20: registration precedes transmission.  While a thread's read accessor
\* has not yet appended its promise to the waiter table, no request frame of
\* that call is in the outbound queue or held by the sender worker, and the
\* call has enqueued nothing; a request frame is enqueued only by a thread
\* whose promise has been appended.
C20_RegistrationPrecedes ==
    /\ \A t \in Registering :
          /\ RequestsOf(t) = {}
          /\ t \in Callers => op[t].nenq = 0
    /\ \A t \in Threads : RequestsOf(t) # {} => wfprom[t] = CallId(t)

\* a caller's request is in the outbound queue while the caller waits, its
\* promise in the table and not set
C20_QueuedAfterRegistration ==
    \E t \in Callers :
        /\ pc[t] = "wf_wait"
        /\ \E i \in 1..Len(queue) : queue[i].by = CallId(t)
        /\ wfprom[t] \in InTable
        /\ ~pev[wfprom[t]]

\* the step leaves in place every waiter list that holds a waiter
C21_ListKept ==
    \A k \in Keys :
        (promises[k] # NoDeque /\ deq[promises[k]] # <<>>)
            => promises'[k] = promises[k]

\* C21: concurrent first registration loses no waiter.  The check-then-create
\* of the per-command list in wait_for never replaces a list that already
\* holds a waiter, so that after two concurrent first reads of a command the
\* list holds both callers' waiters.
C21_FirstRegistrationKeepsWaiters == [][C21_ListKept]_vars

\* C22: the waiter table exists before dispatch can run.  Whenever a pool
\* worker is about to read the driver's waiter table, in
\* _fulfill_bic_promises or in the wait_for of a handler's read of the
\* scaling table, the table has been initialised.
C22_TableBeforeDispatch ==
    \A w \in Workers : pc[w] \in {"f_begin", "wf_check"} => promisesAttr

====
